---- MODULE Spec2Model ----
(***************************************************************************)
(* CopyCat (src/main.pyw): the single-instance guard                       *)
(* (ensure_single_instance / release_lock), the process entry point with   *)
(* the tray's quit paths, and the hotkey listener thread with the          *)
(* clipboard typer (start_hotkey_listener / type_clipboard_text).          *)
(*                                                                         *)
(* Spec      : NProcs processes started on one machine, each running the   *)
(*             __main__ block once, sharing the lock file LOCK_FILE.       *)
(* FairSpec  : Spec with weak fairness on every step a process takes by    *)
(*             itself (everything but the user's and the OS's inputs).     *)
(* SpecTyper : the listener thread of one running instance: raw key        *)
(*             events, the HotKey chord state, the typing pipeline.        *)
(***************************************************************************)
EXTENDS Integers, Sequences, FiniteSets, TLC

(* ------------------------------ bounds --------------------------------- *)
NProcs == 2
MaxLen == 2
MaxQueue == 2

Procs == 1..NProcs

(* ------------------------------ state ---------------------------------- *)
VARIABLES
  \* --- the machine's file system and the OS lock table
  lockFile,          \* inode linked at LOCK_FILE (0: no such file)
  \* --- per process
  pc,                \* position of the main thread
  LOCK_FILE_HANDLE,  \* "None" | "open" | "closed"  (the module global)
  hino,              \* inode the handle's descriptor refers to (0: no descriptor)
  flocked,           \* the handle's open file description holds the lock
  registered,        \* atexit.register(release_lock) was called
  result,            \* what ensure_single_instance() gave: "none" | "True" | "False" | "raised"
  cause,             \* which failure the call met: "none" | "import" | "open" | "held" | "lock"
  listener,          \* the daemon listener thread: "none" | "running" | "ended"
  tray,              \* the tray icon: "none" | "running" | "stopped" | "gone"
  quitting,          \* quit_app was called
  exitStatus,        \* process exit status (-1: still alive)
  releaseOutcome,    \* release_lock at exit: "none" | "returned" | "raised"
  releaseLog,        \* the statements release_lock ran, in order, each with what it raised
  restartCase,       \* at open(): "no" | "present" | "absent" (a restart after a clean exit)
  \* --- the listener thread of the running instance (SpecTyper)
  lpc,               \* "idle" | "sleep" | "paste" | "write" | "hotkey" | "dead"
  evq,               \* raw key events delivered by the OS, not yet dispatched
  hk_state,          \* HotKey._state: the chord members currently pressed
  held,              \* canonical keys whose last dispatched event was a press
  text,              \* the clipboard snapshot of the current invocation
  lines,             \* text.split('\n')
  idx,               \* the loop index i
  emitted,           \* pyautogui calls of the current invocation, in order
  outcome            \* how the last invocation ended

procVars == <<lockFile, pc, LOCK_FILE_HANDLE, hino, flocked, registered,
              result, cause, listener, tray, quitting, exitStatus, releaseOutcome,
              releaseLog, restartCase>>
typerVars == <<lpc, evq, hk_state, held, text, lines, idx, emitted, outcome>>
vars == <<procVars, typerVars>>

(* ------------------------- Python exceptions --------------------------- *)
\* The built-in exception hierarchy, as far as the handlers of main.pyw
\* tell classes apart.  IOError is an alias of OSError.
ExcParent(c) ==
  CASE c = "BlockingIOError"    -> "OSError"
    [] c = "FileNotFoundError"  -> "OSError"
    [] c = "FileExistsError"    -> "OSError"
    [] c = "OSError"            -> "Exception"
    [] c = "ImportError"        -> "Exception"
    [] c = "ValueError"         -> "Exception"
    [] c = "RuntimeError"       -> "Exception"
    [] c = "PyperclipException" -> "RuntimeError"
    [] c = "FailSafeException"  -> "Exception"
    [] c = "Exception"          -> "BaseException"
    [] c = "KeyboardInterrupt"  -> "BaseException"
    [] OTHER                    -> "object"

ExcClass(c) == IF c = "IOError" THEN "OSError" ELSE c

RECURSIVE IsInstance(_, _)
IsInstance(e, c) ==
  IF e = "object" THEN FALSE
  ELSE IF e = ExcClass(c) THEN TRUE
  ELSE IsInstance(ExcParent(e), c)

\* an "except (c1, c2, ...)" clause catches e
Catches(classes, e) == \E c \in classes : IsInstance(e, c)

(* --------------------- ensure_single_instance() ------------------------ *)
\* The except clauses enclosing each call site, innermost first
\* (lines 81, 83, 85; the win32 branch, lines 65, 67, 69, is the same).
EnsureHandlers(site) ==
  CASE site = "lock"   -> << {"IOError"}, {"IOError", "OSError"}, {"ImportError"} >>
    [] site = "open"   -> << {"IOError", "OSError"}, {"ImportError"} >>
    [] site = "import" -> << {"ImportError"} >>

\* the flock handler answering "return True": the guard fails open
EnsureOnRaiseFailOpen(site, e) ==
  IF \E i \in 1..Len(EnsureHandlers(site)) : Catches(EnsureHandlers(site)[i], e)
  THEN (IF site = "lock" THEN "True" ELSE "False") ELSE "raised"

\* every handler is "return False"; an exception no clause catches leaves
\* the function
EnsureOnRaise(site, e) ==
  IF \E i \in 1..Len(EnsureHandlers(site)) : Catches(EnsureHandlers(site)[i], e)
  THEN "False" ELSE "raised"

\* import fcntl / import msvcrt
ImportRaises(fault) == IF fault THEN "ImportError" ELSE "ok"

\* open(LOCK_FILE, 'x'): exclusive creation, refused when the file exists
OpenRaisesExclusive(fault, exists) ==
  IF fault THEN "OSError" ELSE IF exists THEN "FileExistsError" ELSE "ok"

\* open(LOCK_FILE, 'w'): creates the file when absent, truncates it otherwise
OpenRaises(fault, exists) == IF fault THEN "OSError" ELSE "ok"

\* fcntl.flock(h, LOCK_EX | LOCK_NB) / msvcrt.locking(fd, LK_NBLCK, 1):
\* a single non-blocking attempt
LockRaises(fault, busy) ==
  IF busy THEN "BlockingIOError" ELSE IF fault THEN "OSError" ELSE "ok"

\* the inode a created file gets: a number no open file still refers to
FreshInode == CHOOSE i \in 1..(NProcs + 1) :
                /\ \A q \in Procs : hino[q] # i
                /\ \A j \in 1..(i - 1) : \E q \in Procs : hino[q] = j

\* another open file description holds the lock on the inode of p's handle
Busy(p) == \E q \in Procs \ {p} : flocked[q] /\ hino[q] = hino[p]

\* every other process has not started yet or is gone
Quiescent(p) == \A q \in Procs \ {p} : pc[q] \in {"start", "exited"}

\* a process that ran as the instance and left with status 0
CleanExit(q) == pc[q] = "exited" /\ result[q] = "True" /\ exitStatus[q] = 0

Import(p) ==
  /\ pc[p] = "start"
  /\ \E fault \in BOOLEAN :
       LET x == ImportRaises(fault) IN
       /\ cause' = IF fault THEN [cause EXCEPT ![p] = "import"] ELSE cause
       /\ IF x = "ok"
          THEN /\ pc' = [pc EXCEPT ![p] = "open"]
               /\ result' = result
          ELSE /\ pc' = [pc EXCEPT ![p] = "main"]
               /\ result' = [result EXCEPT ![p] = EnsureOnRaise("import", x)]
  /\ UNCHANGED <<lockFile, LOCK_FILE_HANDLE, hino, flocked, registered,
                 listener, tray, quitting, exitStatus, releaseOutcome, releaseLog, restartCase>>
  /\ UNCHANGED typerVars

Open(p) ==
  /\ pc[p] = "open"
  /\ \E fault \in BOOLEAN :
       LET x == OpenRaises(fault, lockFile # 0) IN
       /\ cause' = IF fault THEN [cause EXCEPT ![p] = "open"] ELSE cause
       /\ IF x = "ok"
          THEN /\ lockFile' = IF lockFile = 0 THEN FreshInode ELSE lockFile
               /\ LOCK_FILE_HANDLE' = [LOCK_FILE_HANDLE EXCEPT ![p] = "open"]
               /\ hino' = [hino EXCEPT ![p] = lockFile']
               /\ restartCase' = [restartCase EXCEPT ![p] =
                     IF Quiescent(p) /\ (\E q \in Procs : CleanExit(q))
                     THEN (IF lockFile = 0 THEN "absent" ELSE "present")
                     ELSE "no"]
               /\ pc' = [pc EXCEPT ![p] = "lock"]
               /\ result' = result
          ELSE /\ pc' = [pc EXCEPT ![p] = "main"]
               /\ result' = [result EXCEPT ![p] = EnsureOnRaise("open", x)]
               /\ UNCHANGED <<lockFile, LOCK_FILE_HANDLE, hino, restartCase>>
  /\ UNCHANGED <<flocked, registered, listener, tray, quitting, exitStatus,
                 releaseOutcome, releaseLog>>
  /\ UNCHANGED typerVars

\* atexit.register(release_lock) placed before the flock attempt: the
\* cleanup is registered whether or not the lock is then obtained
LockRegistersFirst(p) ==
  /\ pc[p] = "lock"
  /\ registered' = [registered EXCEPT ![p] = TRUE]
  /\ \E fault \in BOOLEAN :
       LET x == LockRaises(fault, Busy(p)) IN
       /\ cause' = IF Busy(p) THEN [cause EXCEPT ![p] = "held"]
                   ELSE IF fault THEN [cause EXCEPT ![p] = "lock"] ELSE cause
       /\ IF x = "ok"
          THEN /\ flocked' = [flocked EXCEPT ![p] = TRUE]
               /\ pc' = [pc EXCEPT ![p] = "return"]
               /\ UNCHANGED <<LOCK_FILE_HANDLE, hino, result>>
          ELSE /\ LOCK_FILE_HANDLE' = [LOCK_FILE_HANDLE EXCEPT ![p] = "closed"]
               /\ hino' = [hino EXCEPT ![p] = 0]
               /\ pc' = [pc EXCEPT ![p] = "main"]
               /\ result' = [result EXCEPT ![p] = EnsureOnRaise("lock", x)]
               /\ UNCHANGED flocked
  /\ UNCHANGED <<lockFile, listener, tray, quitting, exitStatus,
                 releaseOutcome, releaseLog, restartCase>>
  /\ UNCHANGED typerVars

\* flock succeeded: atexit.register(release_lock), then "return True" is
\* reached inside the with block.  flock failed: the handler's "return False"
\* leaves the with block, which closes the file.
Lock(p) ==
  /\ pc[p] = "lock"
  /\ \E fault \in BOOLEAN :
       LET x == LockRaises(fault, Busy(p)) IN
       /\ cause' = IF Busy(p) THEN [cause EXCEPT ![p] = "held"]
                   ELSE IF fault THEN [cause EXCEPT ![p] = "lock"] ELSE cause
       /\ IF x = "ok"
          THEN /\ flocked' = [flocked EXCEPT ![p] = TRUE]
               /\ registered' = [registered EXCEPT ![p] = TRUE]
               /\ pc' = [pc EXCEPT ![p] = "return"]
               /\ UNCHANGED <<LOCK_FILE_HANDLE, hino, result>>
          ELSE /\ LOCK_FILE_HANDLE' = [LOCK_FILE_HANDLE EXCEPT ![p] = "closed"]
               /\ hino' = [hino EXCEPT ![p] = 0]
               /\ pc' = [pc EXCEPT ![p] = "main"]
               /\ result' = [result EXCEPT ![p] = EnsureOnRaise("lock", x)]
               /\ UNCHANGED <<flocked, registered>>
  /\ UNCHANGED <<lockFile, listener, tray, quitting, exitStatus,
                 releaseOutcome, releaseLog, restartCase>>
  /\ UNCHANGED typerVars

\* "return True" leaves "with open(...) as lock_file": lock_file.__exit__
\* closes the file, and closing the only descriptor of an open file
\* description drops the lock it holds.  LOCK_FILE_HANDLE keeps naming the
\* closed file object.
ReturnTrue(p) ==
  /\ pc[p] = "return"
  /\ LOCK_FILE_HANDLE' = [LOCK_FILE_HANDLE EXCEPT ![p] = "closed"]
  /\ hino' = [hino EXCEPT ![p] = 0]
  /\ flocked' = [flocked EXCEPT ![p] = FALSE]
  /\ result' = [result EXCEPT ![p] = "True"]
  /\ pc' = [pc EXCEPT ![p] = "main"]
  /\ UNCHANGED <<lockFile, registered, cause, listener, tray,
                 quitting, exitStatus, releaseOutcome, releaseLog, restartCase>>
  /\ UNCHANGED typerVars

(* ------------------------------ __main__ ------------------------------- *)
\* the listener thread started before the single-instance check
MainEager(p) ==
  /\ pc[p] = "main"
  /\ listener' = [listener EXCEPT ![p] = "running"]
  /\ IF result[p] = "True"
     THEN /\ pc' = [pc EXCEPT ![p] = "run_tray"]
          /\ UNCHANGED exitStatus
     ELSE /\ exitStatus' = [exitStatus EXCEPT ![p] = IF result[p] = "False" THEN 0 ELSE 1]
          /\ pc' = [pc EXCEPT ![p] = "atexit"]
  /\ UNCHANGED <<lockFile, LOCK_FILE_HANDLE, hino, flocked, registered,
                 result, cause, tray, quitting, releaseOutcome, releaseLog, restartCase>>
  /\ UNCHANGED typerVars

\* if not ensure_single_instance(): sys.exit(0)
\* threading.Thread(target=start_hotkey_listener, daemon=True).start()
\* (an exception leaving ensure_single_instance ends the process with a
\* traceback and status 1)
Main(p) ==
  /\ pc[p] = "main"
  /\ IF result[p] = "True"
     THEN /\ listener' = [listener EXCEPT ![p] = "running"]
          /\ pc' = [pc EXCEPT ![p] = "run_tray"]
          /\ UNCHANGED exitStatus
     ELSE /\ exitStatus' = [exitStatus EXCEPT ![p] = IF result[p] = "False" THEN 0 ELSE 1]
          /\ pc' = [pc EXCEPT ![p] = "atexit"]
          /\ UNCHANGED listener
  /\ UNCHANGED <<lockFile, LOCK_FILE_HANDLE, hino, flocked, registered,
                 result, cause, tray, quitting, releaseOutcome, releaseLog, restartCase>>
  /\ UNCHANGED typerVars

\* run_tray(): ICON_INSTANCE = Icon(...); ICON_INSTANCE.run() blocks
RunTray(p) ==
  /\ pc[p] = "run_tray"
  /\ tray' = [tray EXCEPT ![p] = "running"]
  /\ pc' = [pc EXCEPT ![p] = "tray"]
  /\ UNCHANGED <<lockFile, LOCK_FILE_HANDLE, hino, flocked, registered,
                 result, cause, listener, quitting, exitStatus, releaseOutcome, releaseLog,
                 restartCase>>
  /\ UNCHANGED typerVars

\* the user picks 'Quit CopyCat': the menu calls quit_app(icon, item)
QuitMenu(p) ==
  /\ pc[p] = "tray"
  /\ quitting' = [quitting EXCEPT ![p] = TRUE]
  /\ pc' = [pc EXCEPT ![p] = "quit_app"]
  /\ UNCHANGED <<lockFile, LOCK_FILE_HANDLE, hino, flocked, registered,
                 result, cause, listener, tray, exitStatus, releaseOutcome, releaseLog,
                 restartCase>>
  /\ UNCHANGED typerVars

\* except KeyboardInterrupt: quit_app(ICON_INSTANCE, None)
TrayKeyboardInterrupt(p) ==
  /\ pc[p] = "tray"
  /\ quitting' = [quitting EXCEPT ![p] = TRUE]
  /\ pc' = [pc EXCEPT ![p] = "quit_app"]
  /\ UNCHANGED <<lockFile, LOCK_FILE_HANDLE, hino, flocked, registered,
                 result, cause, listener, tray, exitStatus,
                 releaseOutcome, releaseLog, restartCase>>
  /\ UNCHANGED typerVars

\* icon.stop() under "except (AttributeError, RuntimeError): pass"
StopIcon(p, fault) == IF fault THEN tray[p] ELSE "stopped"

\* quit_app, first half: if icon: try: icon.stop()
QuitStop(p) ==
  /\ pc[p] = "quit_app"
  /\ \E fault \in BOOLEAN : tray' = [tray EXCEPT ![p] = StopIcon(p, fault)]
  /\ pc' = [pc EXCEPT ![p] = "quit_exit"]
  /\ UNCHANGED <<lockFile, LOCK_FILE_HANDLE, hino, flocked, registered,
                 result, cause, listener, quitting, exitStatus, releaseOutcome, releaseLog,
                 restartCase>>
  /\ UNCHANGED typerVars

\* quit_app without its sys.exit(0): the callback returns to the tray loop
QuitExitReturns(p) ==
  /\ pc[p] = "quit_exit"
  /\ pc' = [pc EXCEPT ![p] = "tray"]
  /\ UNCHANGED <<lockFile, LOCK_FILE_HANDLE, hino, flocked, registered,
                 result, cause, listener, tray, quitting, exitStatus,
                 releaseOutcome, releaseLog, restartCase>>
  /\ UNCHANGED typerVars

\* quit_app, second half: sys.exit(0)
QuitExit(p) ==
  /\ pc[p] = "quit_exit"
  /\ exitStatus' = [exitStatus EXCEPT ![p] = 0]
  /\ pc' = [pc EXCEPT ![p] = "atexit"]
  /\ UNCHANGED <<lockFile, LOCK_FILE_HANDLE, hino, flocked, registered,
                 result, cause, listener, tray, quitting, releaseOutcome, releaseLog,
                 restartCase>>
  /\ UNCHANGED typerVars

\* except Exception in run_tray: ICON_INSTANCE.stop(); sys.exit(1)
TrayError(p) ==
  /\ pc[p] = "tray"
  /\ \E fault \in BOOLEAN : tray' = [tray EXCEPT ![p] = StopIcon(p, fault)]
  /\ exitStatus' = [exitStatus EXCEPT ![p] = 1]
  /\ pc' = [pc EXCEPT ![p] = "atexit"]
  /\ UNCHANGED <<lockFile, LOCK_FILE_HANDLE, hino, flocked, registered,
                 result, cause, listener, quitting, releaseOutcome, releaseLog, restartCase>>
  /\ UNCHANGED typerVars

(* --------------------------- release_lock() ---------------------------- *)
\* The except clauses enclosing each call site, innermost first, with the
\* statement control goes to after the clause's "pass":
\*   unlock (line 107): 108 -> close, 110 -> close, 118 -> function end
\*   close  (line 113): 118 -> function end
\*   remove (line 115): 116 -> function end, 118 -> function end
ReleaseHandlers(site) ==
  CASE site = "unlock" -> << <<{"IOError", "OSError"}, "rl_close">>,
                             <<{"ImportError"}, "rl_close">>,
                             <<{"IOError", "OSError"}, "terminate">> >>
    [] site = "close"  -> << <<{"IOError", "OSError"}, "terminate">> >>
    [] site = "remove" -> << <<{"IOError", "OSError"}, "terminate">>,
                             <<{"IOError", "OSError"}, "terminate">> >>

RECURSIVE FirstHandler(_, _, _)
FirstHandler(hs, e, i) ==
  IF i > Len(hs) THEN 0
  ELSE IF Catches(hs[i][1], e) THEN i
  ELSE FirstHandler(hs, e, i + 1)

\* where release_lock continues after e is raised at site ("raise": e
\* leaves release_lock)
ReleaseOnRaise(site, e) ==
  LET hs == ReleaseHandlers(site)
      i == FirstHandler(hs, e, 1)
  IN IF i = 0 THEN "raise" ELSE hs[i][2]

\* fcntl.flock(h, LOCK_UN) / msvcrt.locking(h.fileno(), LK_UNLCK, 1): both
\* need h.fileno(), which raises ValueError on a closed file
UnlockRaises(h, fault) ==
  IF h = "closed" THEN "ValueError" ELSE IF fault THEN "OSError" ELSE "ok"

\* os.remove(LOCK_FILE)
RemoveRaises(exists, fault) ==
  IF ~exists THEN "FileNotFoundError" ELSE IF fault THEN "OSError" ELSE "ok"

\* interpreter shutdown runs the atexit callbacks: release_lock when it was
\* registered; its first statement is "if LOCK_FILE_HANDLE:"
AtExit(p) ==
  /\ pc[p] = "atexit"
  /\ IF registered[p] /\ LOCK_FILE_HANDLE[p] # "None"
     THEN /\ pc' = [pc EXCEPT ![p] = "rl_unlock"]
          /\ UNCHANGED releaseOutcome
     ELSE /\ pc' = [pc EXCEPT ![p] = "terminate"]
          /\ releaseOutcome' = [releaseOutcome EXCEPT ![p] =
                                  IF registered[p] THEN "returned" ELSE "none"]
  /\ UNCHANGED <<lockFile, LOCK_FILE_HANDLE, hino, flocked, registered,
                 result, cause, listener, tray, quitting, exitStatus, releaseLog,
                 restartCase>>
  /\ UNCHANGED typerVars

\* one statement of release_lock: the unlock, the close or the delete.
\* atexit reports an exception that leaves the callback and goes on.
release_lock(p) ==
  /\ pc[p] \in {"rl_unlock", "rl_close", "rl_remove"}
  /\ \E fault \in BOOLEAN :
       LET site == CASE pc[p] = "rl_unlock" -> "unlock"
                     [] pc[p] = "rl_close"  -> "close"
                     [] pc[p] = "rl_remove" -> "remove"
           x == CASE site = "unlock" -> UnlockRaises(LOCK_FILE_HANDLE[p], fault)
                  [] site = "close"  -> IF fault THEN "OSError" ELSE "ok"
                  [] site = "remove" -> RemoveRaises(lockFile # 0, fault)
           next == IF x = "ok"
                   THEN (CASE site = "unlock" -> "rl_close"
                           [] site = "close"  -> "rl_remove"
                           [] site = "remove" -> "terminate")
                   ELSE ReleaseOnRaise(site, x)
       IN
       /\ flocked' = IF x = "ok" /\ site \in {"unlock", "close"}
                     THEN [flocked EXCEPT ![p] = FALSE] ELSE flocked
       /\ LOCK_FILE_HANDLE' = IF x = "ok" /\ site = "close"
                              THEN [LOCK_FILE_HANDLE EXCEPT ![p] = "closed"]
                              ELSE LOCK_FILE_HANDLE
       /\ hino' = IF x = "ok" /\ site = "close"
                  THEN [hino EXCEPT ![p] = 0] ELSE hino
       /\ lockFile' = IF x = "ok" /\ site = "remove" THEN 0 ELSE lockFile
       /\ pc' = [pc EXCEPT ![p] = IF next = "raise" THEN "terminate" ELSE next]
       /\ releaseOutcome' = [releaseOutcome EXCEPT ![p] =
                               IF next = "raise" THEN "raised"
                               ELSE IF next = "terminate" THEN "returned"
                               ELSE @]
       /\ releaseLog' = [releaseLog EXCEPT ![p] = Append(@, <<site, x>>)]
  /\ UNCHANGED <<registered, result, cause, listener, tray,
                 quitting, exitStatus, restartCase>>
  /\ UNCHANGED typerVars

\* the process ends: the OS closes its descriptors, which drops its locks;
\* the daemon listener thread ends with it, nobody joins it
Terminate(p) ==
  /\ pc[p] = "terminate"
  /\ flocked' = [flocked EXCEPT ![p] = FALSE]
  /\ hino' = [hino EXCEPT ![p] = 0]
  /\ listener' = [listener EXCEPT ![p] = IF @ = "running" THEN "ended" ELSE @]
  /\ tray' = [tray EXCEPT ![p] = IF @ = "none" THEN @ ELSE "gone"]
  /\ pc' = [pc EXCEPT ![p] = "exited"]
  /\ UNCHANGED <<lockFile, LOCK_FILE_HANDLE, registered, result,
                 cause, quitting, exitStatus, releaseOutcome, releaseLog, restartCase>>
  /\ UNCHANGED typerVars

\* LOCK_FILE lives in tempfile.gettempdir(): something else on the machine
\* deletes it while no process has it open
RemoveLockFile ==
  /\ lockFile # 0
  /\ \A p \in Procs : hino[p] = 0
  /\ lockFile' = 0
  /\ UNCHANGED <<pc, LOCK_FILE_HANDLE, hino, flocked, registered, result,
                 cause, listener, tray, quitting, exitStatus, releaseOutcome, releaseLog,
                 restartCase>>
  /\ UNCHANGED typerVars

(* ------------------------- the process system -------------------------- *)
ProcInit ==
  /\ lockFile = 0
  /\ pc = [p \in Procs |-> "start"]
  /\ LOCK_FILE_HANDLE = [p \in Procs |-> "None"]
  /\ hino = [p \in Procs |-> 0]
  /\ flocked = [p \in Procs |-> FALSE]
  /\ registered = [p \in Procs |-> FALSE]
  /\ result = [p \in Procs |-> "none"]
  /\ cause = [p \in Procs |-> "none"]
  /\ listener = [p \in Procs |-> "none"]
  /\ tray = [p \in Procs |-> "none"]
  /\ quitting = [p \in Procs |-> FALSE]
  /\ exitStatus = [p \in Procs |-> -1]
  /\ releaseOutcome = [p \in Procs |-> "none"]
  /\ releaseLog = [p \in Procs |-> << >>]
  /\ restartCase = [p \in Procs |-> "no"]

TyperIdle ==
  /\ lpc = "idle"
  /\ evq = << >>
  /\ hk_state = {}
  /\ held = {}
  /\ text = << >>
  /\ lines = << >>
  /\ idx = 0
  /\ emitted = << >>
  /\ outcome = "none"

Init == ProcInit /\ TyperIdle

\* the steps a process takes by itself
ProcStep(p) ==
  \/ Import(p) \/ Open(p) \/ Lock(p) \/ ReturnTrue(p)
  \/ Main(p) \/ RunTray(p)
  \/ QuitStop(p) \/ QuitExit(p)
  \/ AtExit(p) \/ release_lock(p) \/ Terminate(p)

\* what the user and the machine do to it
EnvStep(p) == QuitMenu(p) \/ TrayKeyboardInterrupt(p) \/ TrayError(p)

Next ==
  \/ \E p \in Procs : ProcStep(p)
  \/ \E p \in Procs : EnvStep(p)
  \/ RemoveLockFile

Spec == Init /\ [][Next]_vars

\* A started process is scheduled: each of its own steps is eventually taken.
FairSpec == Spec /\ \A p \in Procs : WF_vars(ProcStep(p))

(* ============== the listener thread and the clipboard typer ============ *)
LF == "\n"
Chars == {"a", "b", LF}

RECURSIVE SeqsUpTo(_, _)
SeqsUpTo(S, n) ==
  IF n = 0 THEN { << >> }
  ELSE LET shorter == SeqsUpTo(S, n - 1)
       IN shorter \cup { Append(t, c) : t \in shorter, c \in S }

\* what pyperclip.paste() can return
Texts == SeqsUpTo(Chars, MaxLen)

\* text.splitlines(keepends=True)-like: every piece keeps the line feed
\* that ends it
RECURSIVE SplitKeepEnds(_)
SplitKeepEnds(t) ==
  IF t = << >> THEN << << >> >>
  ELSE LET rest == SplitKeepEnds(Tail(t))
       IN IF Head(t) = LF
          THEN << <<LF>> >> \o rest
          ELSE << <<Head(t)>> \o rest[1] >> \o Tail(rest)

\* text.split('\n'): the pieces between line feeds, empty pieces kept
RECURSIVE Split(_)
Split(t) ==
  IF t = << >> THEN << << >> >>
  ELSE LET rest == Split(Tail(t))
       IN IF Head(t) = LF
          THEN << << >> >> \o rest
          ELSE << <<Head(t)>> \o rest[1] >> \o Tail(rest)

\* "if not text": the empty string is falsy
\* (a test "text is None" instead: the empty string passes it)
IsFalsyNoneOnly(t) == FALSE

IsFalsy(t) == t = << >>

\* "if i < len(lines)": a shift+enter after every line, the last included
MoreLinesOffByOne(i, n) == i < n

\* "if i < len(lines) - 1"
MoreLines(i, n) == i < n - 1

\* only the first except clause of type_clipboard_text
TyperHandlersNarrow == << {"FailSafeException", "KeyboardInterrupt"} >>

\* except (pyautogui.FailSafeException, KeyboardInterrupt) / except Exception:
\* both print a message and fall off the end of the function
TyperHandlers == << {"FailSafeException", "KeyboardInterrupt"}, {"Exception"} >>

\* where the listener thread is after e is raised inside type_clipboard_text:
\* back in its event loop, or dead because e left on_activate
TyperOnRaise(e) ==
  IF \E i \in 1..Len(TyperHandlers) : Catches(TyperHandlers[i], e)
  THEN "idle" ELSE "dead"

\* HOTKEY = '<ctrl>+<alt>+t', parsed once by keyboard.HotKey.parse
Chord == {"ctrl", "alt", "t"}

\* the raw keys the OS reports
RawKeys == {"ctrl_l", "ctrl_r", "alt_l", "t", "x"}

\* Listener.canonical: the layout- and side-independent form of a raw key
canonical(k) ==
  CASE k \in {"ctrl_l", "ctrl_r"} -> "ctrl"
    [] k = "alt_l"                -> "alt"
    [] OTHER                      -> k

\* for_canonical(f) == lambda k: f(l.canonical(k))
for_canonical(k) == canonical(k)

\* HotKey.press(key): a chord member newly pressed joins the state; the
\* callback fires when that completes the chord
HotKeyPress(state, key) ==
  IF key \in Chord /\ key \notin state
  THEN [state |-> state \cup {key}, fire |-> (state \cup {key}) = Chord]
  ELSE [state |-> state, fire |-> FALSE]

\* HotKey.release(key)
HotKeyRelease(state, key) == state \ {key}

\* the OS delivers a raw key event to the listener's queue
KeyEvent ==
  /\ Len(evq) < MaxQueue
  /\ \E kind \in {"press", "release"}, k \in RawKeys :
       evq' = Append(evq, <<kind, k>>)
  /\ UNCHANGED <<lpc, hk_state, held, text, lines, idx, emitted, outcome>>
  /\ UNCHANGED procVars

\* on_release wired to nothing: releases never reach the HotKey
on_release_unwired ==
  /\ lpc = "idle"
  /\ evq # << >>
  /\ Head(evq)[1] = "release"
  /\ evq' = Tail(evq)
  /\ held' = held \ {canonical(Head(evq)[2])}
  /\ UNCHANGED <<lpc, hk_state, text, lines, idx, emitted, outcome>>
  /\ UNCHANGED procVars

\* on_activate handing type_clipboard_text to a thread of its own
\* (threading.Thread(target=type_clipboard_text).start()): the listener goes
\* on dispatching while text is being typed, and a chord completed meanwhile
\* starts typing on top of the invocation in progress
on_press_threaded ==
  /\ evq # << >>
  /\ Head(evq)[1] = "press"
  /\ LET key == for_canonical(Head(evq)[2])
         r == HotKeyPress(hk_state, key)
     IN /\ evq' = Tail(evq)
        /\ hk_state' = r.state
        /\ held' = held \cup {canonical(Head(evq)[2])}
        /\ IF r.fire
           THEN /\ lpc' = "sleep"
                /\ text' = << >>
                /\ lines' = << >>
                /\ idx' = 0
                /\ emitted' = << >>
                /\ outcome' = "none"
           ELSE UNCHANGED <<lpc, text, lines, idx, emitted, outcome>>
  /\ UNCHANGED procVars

\* on_press=for_canonical(hotkey.press), run on the listener thread; a
\* completed chord calls on_activate -> type_clipboard_text() on that thread
on_press ==
  /\ lpc = "idle"
  /\ evq # << >>
  /\ Head(evq)[1] = "press"
  /\ LET key == for_canonical(Head(evq)[2])
         r == HotKeyPress(hk_state, key)
     IN /\ evq' = Tail(evq)
        /\ hk_state' = r.state
        /\ held' = held \cup {canonical(Head(evq)[2])}
        /\ IF r.fire
           THEN /\ lpc' = "sleep"
                /\ text' = << >>
                /\ lines' = << >>
                /\ idx' = 0
                /\ emitted' = << >>
                /\ outcome' = "none"
           ELSE UNCHANGED <<lpc, text, lines, idx, emitted, outcome>>
  /\ UNCHANGED procVars

\* on_release=for_canonical(hotkey.release)
on_release ==
  /\ lpc = "idle"
  /\ evq # << >>
  /\ Head(evq)[1] = "release"
  /\ evq' = Tail(evq)
  /\ hk_state' = HotKeyRelease(hk_state, for_canonical(Head(evq)[2]))
  /\ held' = held \ {canonical(Head(evq)[2])}
  /\ UNCHANGED <<lpc, text, lines, idx, emitted, outcome>>
  /\ UNCHANGED procVars

\* time.sleep(TYPING_DELAY)
Sleep ==
  /\ lpc = "sleep"
  /\ lpc' = "paste"
  /\ UNCHANGED <<evq, hk_state, held, text, lines, idx, emitted, outcome>>
  /\ UNCHANGED procVars

\* text = pyperclip.paste(); if not text: return; lines = text.split('\n')
Paste ==
  /\ lpc = "paste"
  /\ \E e \in {"ok", "PyperclipException"}, t \in Texts :
       IF e # "ok"
       THEN /\ lpc' = TyperOnRaise(e)
            /\ outcome' = IF TyperOnRaise(e) = "idle" THEN "caught_paste" ELSE "raised"
            /\ UNCHANGED <<text, lines, idx>>
       ELSE /\ text' = t
            /\ IF IsFalsy(t)
               THEN /\ lpc' = "idle"
                    /\ outcome' = "empty"
                    /\ UNCHANGED <<lines, idx>>
               ELSE /\ lpc' = "write"
                    /\ lines' = Split(t)
                    /\ idx' = 0
                    /\ UNCHANGED outcome
  /\ UNCHANGED <<evq, hk_state, held, emitted>>
  /\ UNCHANGED procVars

\* pyautogui.write(line, interval=TYPING_INTERVAL), then the loop's test
Write ==
  /\ lpc = "write"
  /\ \E e \in {"ok", "FailSafeException", "OSError"} :
       IF e # "ok"
       THEN /\ lpc' = TyperOnRaise(e)
            /\ outcome' = IF TyperOnRaise(e) = "idle" THEN "caught_write" ELSE "raised"
            /\ UNCHANGED <<idx, emitted>>
       ELSE /\ emitted' = Append(emitted, <<"write", lines[idx + 1]>>)
            /\ IF MoreLines(idx, Len(lines))
               THEN /\ lpc' = "hotkey"
                    /\ UNCHANGED <<idx, outcome>>
               ELSE /\ idx' = idx + 1
                    /\ lpc' = IF idx + 1 < Len(lines) THEN "write" ELSE "idle"
                    /\ outcome' = IF idx + 1 < Len(lines) THEN outcome ELSE "typed"
  /\ UNCHANGED <<evq, hk_state, held, text, lines>>
  /\ UNCHANGED procVars

\* pyautogui.hotkey('shift', 'enter'), then the next turn of the loop
Hotkey ==
  /\ lpc = "hotkey"
  /\ \E e \in {"ok", "FailSafeException", "OSError"} :
       IF e # "ok"
       THEN /\ lpc' = TyperOnRaise(e)
            /\ outcome' = IF TyperOnRaise(e) = "idle" THEN "caught_hotkey" ELSE "raised"
            /\ UNCHANGED <<idx, emitted>>
       ELSE /\ emitted' = Append(emitted, <<"hotkey", <<"shift", "enter">> >>)
            /\ idx' = idx + 1
            /\ lpc' = IF idx + 1 < Len(lines) THEN "write" ELSE "idle"
            /\ outcome' = IF idx + 1 < Len(lines) THEN outcome ELSE "typed"
  /\ UNCHANGED <<evq, hk_state, held, text, lines>>
  /\ UNCHANGED procVars

\* one instance up and in its tray loop, its listener thread waiting
OneRunning ==
  /\ lockFile = 1
  /\ pc = [p \in Procs |-> IF p = 1 THEN "tray" ELSE "start"]
  /\ LOCK_FILE_HANDLE = [p \in Procs |-> IF p = 1 THEN "closed" ELSE "None"]
  /\ hino = [p \in Procs |-> 0]
  /\ flocked = [p \in Procs |-> FALSE]
  /\ registered = [p \in Procs |-> p = 1]
  /\ result = [p \in Procs |-> IF p = 1 THEN "True" ELSE "none"]
  /\ cause = [p \in Procs |-> "none"]
  /\ listener = [p \in Procs |-> IF p = 1 THEN "running" ELSE "none"]
  /\ tray = [p \in Procs |-> IF p = 1 THEN "running" ELSE "none"]
  /\ quitting = [p \in Procs |-> FALSE]
  /\ exitStatus = [p \in Procs |-> -1]
  /\ releaseOutcome = [p \in Procs |-> "none"]
  /\ releaseLog = [p \in Procs |-> << >>]
  /\ restartCase = [p \in Procs |-> "no"]

TyperInit == OneRunning /\ TyperIdle

TyperNext ==
  \/ KeyEvent
  \/ on_press
  \/ on_release
  \/ Sleep
  \/ Paste
  \/ Write
  \/ Hotkey

SpecTyper == TyperInit /\ [][TyperNext]_vars

(* ===================== the single-instance guard ======================= *)
\* p has not yet returned from ensure_single_instance()
InStartup(p) == pc[p] \in {"start", "open", "lock", "return"}
\* ensure_single_instance() has returned in p and p has not begun to exit
Returned(p) == pc[p] \in {"main", "run_tray", "tray"}
Running(p) == Returned(p) /\ result[p] = "True"
Gone(p) == pc[p] = "exited"

\* C1: when all N >= 2 processes have called ensure_single_instance() once,
\* none has begun to exit and none met an I/O or import failure, exactly one
\* of the calls returned True (and every other one False).
C1_ExactlyOneTrue ==
  (\A p \in Procs : Returned(p) /\ cause[p] \in {"none", "held"})
     => Cardinality({p \in Procs : result[p] = "True"}) = 1

\* C2: at most one process is running (got True and has not begun to exit),
\* and a running process holds the lock on the lock file.
C2_AtMostOneRunning ==
  /\ Cardinality({p \in Procs : Running(p)}) <= 1
  /\ \A p \in Procs : Running(p) => flocked[p]

C3_WitnessAbsent ==
  \E p \in Procs :
    /\ restartCase[p] = "absent" /\ result[p] = "True" /\ pc[p] = "main"
    /\ Quiescent(p) /\ \E q \in Procs : CleanExit(q)

\* C4: a call of ensure_single_instance() that finds the lock held by
\* another process, or whose open, lock or import step fails, returns False:
\* it neither returns True nor raises.
C4_FailClosed ==
  \A p \in Procs : (cause[p] # "none" /\ ~InStartup(p)) => result[p] = "False"

\* a call refused because another process held the lock at that moment
C4_Witness ==
  \E p \in Procs : cause[p] = "held" /\ result[p] = "False" /\ pc[p] = "main"

\* a call whose own open, lock or import step failed
C4_WitnessFault ==
  \E p \in Procs : cause[p] \in {"import", "open", "lock"} /\ result[p] = "False"

\* C5: a process whose ensure_single_instance() returned False never has a
\* listener thread or a tray icon; its exit status is 0 from the moment the
\* entry point has acted on the result, and until it is gone it always has
\* a step of its own to take (it waits for nothing).
C5_SecondInstanceExit ==
  \A p \in Procs : result[p] = "False" =>
     /\ listener[p] = "none"
     /\ tray[p] = "none"
     /\ exitStatus[p] = (IF pc[p] = "main" THEN -1 ELSE 0)
     /\ (Gone(p) \/ ENABLED ProcStep(p))

C5_Witness ==
  \E p \in Procs : result[p] = "False" /\ Gone(p) /\ exitStatus[p] = 0

QuitRank(p) ==
  CASE pc[p] = "quit_app"  -> 7
    [] pc[p] = "quit_exit" -> 6
    [] pc[p] = "atexit"    -> 5
    [] pc[p] = "rl_unlock" -> 4
    [] pc[p] = "rl_close"  -> 3
    [] pc[p] = "rl_remove" -> 2
    [] pc[p] = "terminate" -> 1
    [] pc[p] = "exited"    -> 0
    [] OTHER               -> 8

C10_Progress ==
  /\ [](\A p \in Procs : quitting[p] => (Gone(p) \/ ENABLED ProcStep(p)))
  /\ [][\A p \in Procs : (quitting[p] /\ pc'[p] # pc[p]) => QuitRank(p)' < QuitRank(p)]_vars

(* ========================= release_lock at exit ======================== *)
\* C11: release_lock(), run at the exit of a process whose
\* ensure_single_instance() returned True, returns without raising, whatever
\* state the handle and the file are in and whichever statement fails.
C11_TeardownNeverRaises ==
  \A p \in Procs : (result[p] = "True" /\ registered[p]) => releaseOutcome[p] # "raised"

\* no statement of the logged run met a failure of an OS call
NoOSFailure(log) == \A j \in 1..Len(log) : ~IsInstance(log[j][2], "OSError")

\* C13: when a process that ran as the instance has left with status 0 and
\* no OS call of its release_lock() failed, release_lock() ran the unlock,
\* the close and the delete, in this order and each to its end, and LOCK_FILE
\* is gone (as long as no other process has been started to create it again).
C13_CleanExitCleanup ==
  \A p \in Procs :
    (CleanExit(p) /\ NoOSFailure(releaseLog[p])) =>
       /\ releaseLog[p] = << <<"unlock", "ok">>, <<"close", "ok">>, <<"remove", "ok">> >>
       /\ ((\A q \in Procs \ {p} : pc[q] = "start") => lockFile = 0)

\* C15: a process whose ensure_single_instance() returned False has no
\* exit cleanup registered and never runs release_lock(); and no step of a
\* call of ensure_single_instance(), nor any later step of a process whose
\* call returned False, its exit included, deletes the lock file or changes
\* the handle, the lock or the registration of another process.
C15_FailedAcquisitionFrame ==
  /\ [](\A p \in Procs : result[p] = "False" =>
          (~registered[p] /\ releaseOutcome[p] = "none" /\ releaseLog[p] = << >>))
  /\ [][\A p \in Procs :
          (pc'[p] # pc[p] /\ (InStartup(p) \/ result[p] = "False")) =>
             /\ (lockFile # 0 => lockFile' = lockFile)
             /\ \A q \in Procs \ {p} :
                  /\ flocked'[q] = flocked[q]
                  /\ hino'[q] = hino[q]
                  /\ LOCK_FILE_HANDLE'[q] = LOCK_FILE_HANDLE[q]
                  /\ registered'[q] = registered[q]]_vars

\* a process refused because the lock was held has exited, and the process
\* that held the lock still holds it, on the file still at LOCK_FILE
C15_Witness ==
  \E p \in Procs, q \in Procs :
    /\ p # q
    /\ result[p] = "False" /\ cause[p] = "held" /\ Gone(p) /\ ~registered[p]
    /\ flocked[q] /\ lockFile # 0 /\ hino[q] = lockFile

(* ===================== the typer and the hotkey ======================== *)
CountLF(t) == Cardinality({i \in 1..Len(t) : t[i] = LF})
Writes(log) == {j \in 1..Len(log) : log[j][1] = "write"}
Hotkeys(log) == {j \in 1..Len(log) : log[j][1] = "hotkey"}

RECURSIVE Keystrokes(_)
Keystrokes(log) ==
  IF log = << >> THEN 0
  ELSE (IF Head(log)[1] = "write" THEN Len(Head(log)[2]) ELSE 0) + Keystrokes(Tail(log))

Caught == {"caught_paste", "caught_write", "caught_hotkey"}

\* C6: a run of type_clipboard_text() that met no failure, on a text with k
\* line feeds, has made 2k+1 calls: write, shift+enter, write, ..., write --
\* k+1 writes and k shift+enter, the last call a write; the writes carry the
\* text's other characters, an empty line being a write of nothing.
C6_LineSegmentation ==
  (lpc = "idle" /\ outcome = "typed") =>
     LET k == CountLF(text) IN
     /\ text # << >>
     /\ Len(emitted) = 2 * k + 1
     /\ \A j \in 1..Len(emitted) :
          emitted[j][1] = (IF j % 2 = 1 THEN "write" ELSE "hotkey")
     /\ Cardinality(Writes(emitted)) = k + 1
     /\ Cardinality(Hotkeys(emitted)) = k
     /\ emitted[Len(emitted)][1] = "write"
     /\ Keystrokes(emitted) = Len(text) - k

\* a finished run over a text with two line feeds in a row: the empty line
\* between them was written as nothing, and both shift+enter were sent
C6_Witness ==
  /\ lpc = "idle" /\ outcome = "typed"
  /\ \E i \in 1..(Len(text) - 1) : text[i] = LF /\ text[i + 1] = LF
  /\ \E j \in Writes(emitted) : emitted[j][2] = << >>
  /\ Cardinality(Hotkeys(emitted)) >= 2

\* C7: when the clipboard read gave the empty string or failed, the
\* invocation has returned without any pyautogui call: no keystroke and no
\* shift+enter.
C7_EmptyNoOp ==
  (outcome # "none" /\ text = << >>) =>
     /\ lpc = "idle"
     /\ outcome \in {"empty", "caught_paste"}
     /\ emitted = << >>
     /\ Keystrokes(emitted) = 0
     /\ Hotkeys(emitted) = {}

C7_Witness == lpc = "idle" /\ outcome = "empty" /\ text = << >> /\ Chord \subseteq held

C7_WitnessUnavailable == lpc = "idle" /\ outcome = "caught_paste"

\* C8: no failure inside type_clipboard_text() leaves it: the listener
\* thread is never dead, a failed invocation has returned to the event loop,
\* and after a failed invocation the next press that completes the chord
\* starts a new invocation.
C8_FailureContained ==
  /\ [](/\ lpc # "dead"
        /\ outcome # "raised"
        /\ (outcome \in Caught => lpc = "idle"))
  /\ [][( /\ outcome \in Caught
          /\ evq # << >>
          /\ Len(evq') < Len(evq)
          /\ Head(evq)[1] = "press"
          /\ ~(Chord \subseteq held)
          /\ Chord \subseteq (held \cup {canonical(Head(evq)[2])}) )
        => (lpc' = "sleep" /\ outcome' = "none" /\ emitted' = << >>)]_vars

\* an invocation that failed after part of the text was typed, the thread
\* back in its event loop
C8_Witness ==
  /\ lpc = "idle" /\ outcome \in {"caught_write", "caught_hotkey"}
  /\ Len(emitted) >= 2

\* C9: of the canonical key events the listener dispatches, exactly the
\* presses that take the chord from not all members pressed to all members
\* pressed start an invocation; a press while all members are already
\* pressed, and every release, starts none.
C9_ChordCompletion ==
  [][( evq # << >> /\ Len(evq') < Len(evq) ) =>
       LET kind == Head(evq)[1]
           k == canonical(Head(evq)[2])
           after == IF kind = "press" THEN held \cup {k} ELSE held \ {k}
       IN /\ lpc = "idle"
          /\ (lpc' = "sleep") <=>
               (kind = "press" /\ ~(Chord \subseteq held) /\ Chord \subseteq after)
          /\ (lpc' # "sleep" => lpc' = "idle")]_vars

\* the chord has just been completed and the invocation it started is at
\* its first statement
C9_Witness == lpc = "sleep" /\ Chord \subseteq held /\ hk_state = Chord /\ outcome = "none"

\* the chord still fully pressed after the invocation it started is over:
\* every further press of a member is a repeat
C9_WitnessHeld == lpc = "idle" /\ Chord \subseteq held /\ outcome = "typed"

\* s is an initial part of t
IsPrefix(s, t) == Len(s) <= Len(t) /\ SubSeq(t, 1, Len(s)) = s

\* the invocation of type_clipboard_text() is between its first statement
\* and its return
InProgress == lpc \in {"sleep", "paste", "write", "hotkey"}

\* C12: typing is serialized on the listener thread.  An invocation starts
\* only when none is in progress; while one is in progress no event is
\* dispatched or dropped (events delivered meanwhile wait in order behind the
\* ones already waiting) and the calls made so far are only added to; an
\* invocation in progress always has its next step to take; once it has
\* returned the waiting events are dispatched oldest first, and a waiting
\* press that completes the chord starts the next invocation.
C12_TypingSerialized ==
  /\ [][(lpc' = "sleep" /\ lpc # "sleep") => (lpc = "idle" /\ emitted' = << >>)]_vars
  /\ [][InProgress => (IsPrefix(evq, evq') /\ IsPrefix(emitted, emitted'))]_vars
  /\ [](InProgress => ENABLED (Sleep \/ Paste \/ Write \/ Hotkey))
  /\ []((lpc = "idle" /\ evq # << >>) => ENABLED (on_press \/ on_release))
  /\ [][Len(evq') < Len(evq) =>
          /\ evq' = Tail(evq)
          /\ ( ( /\ Head(evq)[1] = "press"
                 /\ for_canonical(Head(evq)[2]) \notin hk_state
                 /\ hk_state \cup {for_canonical(Head(evq)[2])} = Chord )
               => (lpc' = "sleep" /\ outcome' = "none") )]_vars

\* keys are being typed while a release and a new press of a chord member,
\* which complete the chord a second time, wait behind the invocation
C12_Witness ==
  /\ lpc \in {"write", "hotkey"}
  /\ emitted # << >>
  /\ hk_state = Chord
  /\ Len(evq) = 2
  /\ evq[1][1] = "release" /\ evq[2][1] = "press"
  /\ for_canonical(evq[1][2]) \in Chord
  /\ for_canonical(evq[2][2]) = for_canonical(evq[1][2])

\* what the receiving application gets from the calls of log: the strings
\* written, with one line feed for every shift+enter
RECURSIVE Joined(_)
Joined(log) ==
  IF log = << >> THEN << >>
  ELSE (IF Head(log)[1] = "write" THEN Head(log)[2] ELSE <<LF>>) \o Joined(Tail(log))

HasLF(t) == \E i \in 1..Len(t) : t[i] = LF

\* C14: no string passed to pyautogui.write contains a line feed; the
\* strings written so far, joined with one line feed at each shift+enter,
\* are an initial part of the clipboard text at every point of the run, and
\* are the clipboard text itself when a run without failure has returned.
C14_TextRoundTrip ==
  /\ \A j \in Writes(emitted) : ~HasLF(emitted[j][2])
  /\ IsPrefix(Joined(emitted), text)
  /\ (lpc = "idle" /\ outcome = "typed") => (text # << >> /\ Joined(emitted) = text)

\* a finished run over a text that has both a line feed and another character
C14_Witness ==
  /\ lpc = "idle" /\ outcome = "typed"
  /\ HasLF(text) /\ \E i \in 1..Len(text) : text[i] # LF
  /\ Len(emitted) >= 3
  /\ Joined(emitted) = text

====
